---- MODULE Spec2Model ----
(***************************************************************************)
(* Model of the Minecraft server bot (src/bot.py): the handlers cmd_start, *)
(* cmd_stop, cmd_mount and the monitor_players loop of MinecraftServerBot, *)
(* run as coroutines of one asyncio event loop.  A coroutine runs          *)
(* atomically from one `await` to the next, so every action below is the   *)
(* code between two consecutive awaits of one handler.  The EC2 instances  *)
(* and the Minecraft status protocol are the environment.                  *)
(***************************************************************************)
EXTENDS Integers, Sequences, FiniteSets, TLC

\* ---- bounds of the model ------------------------------------------------
MaxCmds == 1
MaxOverlapping == 2
MaxTicks == 3
MaxFaults == 1
MaxPlayers == 1
MaxPolls == 1
MaxMounts == 2
MaxIdleTicks == 4

\* ---- program constants --------------------------------------------------
CONSECUTIVE_EMPTY_LIMIT == 3
\* The length of cmd_start's poll loop.  StartPoll takes the loop length as a
\* parameter; SpecStart runs the loop at this length, the other
\* specifications run it for MaxPolls iterations.
max_wait_loops == 120

\* ---- configuration (config.py) -------------------------------------------
None == "None"
servers == <<"alpha", "beta">>
ServerNames == {servers[k] : k \in 1..Len(servers)}
RequestedNames == ServerNames \cup {"gamma"}
region(p) == IF p = "alpha" THEN "us-east-1" ELSE "us-east-2"
Channels == {"text"}
IsTextChannel(ch) == ch = "text"

Cmds == {"c1", "c2"}
Monitor == "mon"
Tasks == Cmds \cup {Monitor}

VARIABLES
    current,            \* self.current (name of the active ServerCfg)
    ec2_client,         \* self._ec2: None or the region the client is bound to
    consecutive_empty,  \* self._consecutive_empty
    last_command_chan,  \* self._last_command_chan
    last_ec2_state,     \* self._last_ec2_state
    inst,               \* provider run-state of each profile's instance
    task,               \* per coroutine: position, locals, what it has done
    budget              \* commands, ticks and provider faults used so far

vars == <<current, ec2_client, consecutive_empty, last_command_chan,
          last_ec2_state, inst, task, budget>>

shared == <<current, ec2_client, consecutive_empty, last_command_chan, last_ec2_state>>

\* ---- a coroutine's frame ---------------------------------------------------
NoTask ==
    [pc |-> "idle", op |-> "none", channel |-> None, auto |-> FALSE,
     effective_channel |-> None, state |-> "", server_name |-> None,
     is_mc_up |-> FALSE, online_players |-> 0, i |-> 0,
     ip |-> None, waiter |-> None, began |-> None, text_name |-> None,
     notes |-> <<>>, starts |-> <<>>, stops |-> <<>>, mc_queries |-> 0,
     tick_state |-> "", tick_up |-> FALSE, tick_online |-> 0, streak0 |-> 0,
     cmds0 |-> 0, unreachable_ticks |-> 0]

Note(kind, name, what, n) ==
    [kind |-> kind, name |-> name, what |-> what, n |-> n, valid |-> <<>>]

\* say(): channel.send of one message; the frame keeps what it has sent.
say(f, kind, name) == [f EXCEPT !.notes = Append(@, Note(kind, name, "", 0))]

sayEmbed(f, kind, name, what, n) == [f EXCEPT !.notes = Append(@, Note(kind, name, what, n))]

\* ---- the ec2 property and ec2_state() ---------------------------------------
\* The client is created on first use, bound to the active profile's region.
ec2 == IF ec2_client = None THEN region(current) ELSE ec2_client

\* describe_instances through a client of region r for profile p's instance.
Describe(r, p) == IF r = region(p) THEN inst[p] ELSE "error"

\* The results ec2_state() can have: the state read (and remembered in
\* _last_ec2_state), or "error" when the call raises.
ec2_state ==
    {[state |-> Describe(ec2, current), last |-> Describe(ec2, current), fault |-> 0]}
    \cup
    (IF budget.faults < MaxFaults
       THEN {[state |-> "error", last |-> last_ec2_state, fault |-> 1]}
       ELSE {})

\* mc_status() results for the server at profile p's address: the game
\* process answers only while its instance runs; any failure is (False, 0).
mc_status(p) ==
    {[up |-> FALSE, online |-> 0]}
    \cup
    (IF p \in ServerNames /\ inst[p] = "running"
       THEN {[up |-> TRUE, online |-> n] : n \in 0..MaxPlayers}
       ELSE {})

Init ==
    /\ current = servers[1]
    /\ ec2_client = None
    /\ consecutive_empty = 0
    /\ last_command_chan = None
    /\ last_ec2_state = ""
    /\ inst \in [ServerNames -> {"stopped", "running"}]
    /\ task = [t \in Tasks |-> NoTask]
    /\ budget = [cmds |-> 0, ticks |-> 0, faults |-> 0]

\* ---- helpers shared by the handlers -----------------------------------------
\* on_message: a command arriving on channel ch is remembered when ch is a
\* TextChannel.
on_message(ch) == IF IsTextChannel(ch) THEN ch ELSE last_command_chan

Finish(f) == [f EXCEPT !.pc = "done"]

\* A coroutine slot is free before its first invocation and after a return;
\* the frame of a returned coroutine stays until the slot is used again.
\* on_message runs for one message at a time: the next command takes the
\* first free slot.
Free(t) == task[t].pc \in {"idle", "done"}

Accepts(t, limit) ==
    /\ t \in Cmds /\ Free(t) /\ budget.cmds < limit
    /\ \A u \in Cmds : Free(u) => t = "c1" \/ u # "c1"

Spend(cmds, ticks, faults) ==
    budget' = [cmds |-> budget.cmds + cmds, ticks |-> budget.ticks + ticks,
               faults |-> budget.faults + faults]

\* The provider's reaction to start_instances / stop_instances issued through
\* a client of region r for profile p's instance: the new run-state, or
\* "raise" when the provider rejects the call.
StartInstances(r, p) ==
    IF r # region(p) \/ inst[p] = "stopping" THEN "raise"
    ELSE IF inst[p] = "stopped" THEN "pending" ELSE inst[p]

StopInstances(r, p) ==
    IF r # region(p) \/ inst[p] = "pending" THEN "raise"
    ELSE IF inst[p] = "running" THEN "stopping" ELSE inst[p]

\* status_embed for a state other than "running".
OfflineEmbed(state) ==
    IF state = "pending" THEN "starting"
    ELSE IF state \in {"stopping", "shutting-down"} THEN "stopping"
    ELSE IF state = "stopped" THEN "offline"
    ELSE IF state = "error" THEN "error"
    ELSE "unknown"

\* status_embed showing the server as up without the number of players.
RunningEmbed_NoCount(f, kind, name, m) ==
    IF m.up THEN sayEmbed(f, kind, name, "up", 0)
    ELSE sayEmbed(f, kind, name, "unreachable", 0)

\* status_embed for state "running", given the mc_status result.
RunningEmbed(f, kind, name, m) ==
    IF m.up THEN sayEmbed(f, kind, name, "up", m.online)
    ELSE sayEmbed(f, kind, name, "unreachable", 0)

\* ---- cmd_start ----------------------------------------------------------------
\* cmd_start without its "already running" return.
StartPrecondition_NoRunningCheck(state) ==
    IF state \in {"pending", "stopping", "shutting-down"} THEN "Busy" ELSE "proceed"

\* The two early returns of cmd_start.
StartPrecondition(state) ==
    IF state = "running" THEN "AlreadyRunning"
    ELSE IF state \in {"pending", "stopping", "shutting-down"} THEN "Busy"
    ELSE "proceed"

\* on_message dispatching "start", and cmd_start up to its first await.
CmdStart(t, ch, limit) ==
    /\ Accepts(t, limit)
    /\ \E r \in ec2_state :
        LET f == [NoTask EXCEPT !.op = "start", !.channel = ch, !.state = r.state]
            pre == StartPrecondition(r.state)
        IN  /\ ec2_client' = ec2
            /\ last_ec2_state' = r.last
            /\ Spend(1, 0, r.fault)
            /\ IF pre = "proceed"
                 THEN /\ last_command_chan' = ch
                      /\ task' = [task EXCEPT ![t] =
                            [say(f, "Starting", current) EXCEPT
                                !.pc = "start_call", !.began = current]]
                 ELSE /\ last_command_chan' = on_message(ch)
                      /\ task' = [task EXCEPT ![t] = Finish(say(f, pre, current))]
    /\ UNCHANGED <<current, consecutive_empty, inst>>

\* start_instances and the hand-over of the instance_running waiter to a thread.
StartCall(t) ==
    /\ task[t].pc = "start_call"
    /\ LET f == [task[t] EXCEPT !.starts = Append(@, current)]
           res == StartInstances(ec2, current)
       IN  /\ ec2_client' = ec2
           /\ \/ /\ res # "raise"
                 /\ inst' = [inst EXCEPT ![current] = res]
                 /\ task' = [task EXCEPT ![t] =
                        [f EXCEPT !.pc = "start_wait", !.waiter = current]]
                 /\ UNCHANGED budget
              \/ /\ res = "raise" \/ budget.faults < MaxFaults
                 /\ task' = [task EXCEPT ![t] = Finish(say(f, "StartFailed", current))]
                 /\ Spend(0, 0, IF res = "raise" THEN 0 ELSE 1)
                 /\ UNCHANGED inst
    /\ UNCHANGED <<current, consecutive_empty, last_command_chan, last_ec2_state>>

\* A waiter that polls without a limit of attempts: it returns only once the
\* instance runs.
StartWaitDone_Unbounded(t) ==
    /\ task[t].pc = "start_wait"
    /\ inst[task[t].waiter] = "running"
    /\ task' = [task EXCEPT ![t] =
            [say(task[t], "InstanceUp", current) EXCEPT !.pc = "start_poll", !.i = 0]]
    /\ UNCHANGED <<shared, inst, budget>>

\* The waiter returns (the instance runs) or raises (failure state, attempts
\* used up); then the "waiting for Minecraft" message.
StartWaitDone(t) ==
    /\ task[t].pc = "start_wait"
    /\ IF inst[task[t].waiter] = "running"
         THEN task' = [task EXCEPT ![t] =
                [say(task[t], "InstanceUp", current) EXCEPT !.pc = "start_poll", !.i = 0]]
         ELSE task' = [task EXCEPT ![t] = Finish(say(task[t], "StartFailed", current))]
    /\ UNCHANGED <<shared, inst, budget>>

\* The poll loop making one iteration too many.
StartPoll_OneMore(t, loops) ==
    /\ task[t].pc = "start_poll"
    /\ IF task[t].i <= loops
         THEN task' = [task EXCEPT ![t] =
                [@ EXCEPT !.pc = "start_probe", !.i = @ + 1, !.ip = current,
                          !.mc_queries = @ + 1]]
         ELSE task' = [task EXCEPT ![t] =
                Finish(say(task[t], "StartedUnreachable", current))]
    /\ UNCHANGED <<shared, inst, budget>>

\* The poll loop running out without the "did not respond" message.
StartPoll_NoPartial(t, loops) ==
    /\ task[t].pc = "start_poll"
    /\ IF task[t].i < loops
         THEN task' = [task EXCEPT ![t] =
                [@ EXCEPT !.pc = "start_probe", !.i = @ + 1, !.ip = current,
                          !.mc_queries = @ + 1]]
         ELSE task' = [task EXCEPT ![t] = Finish(@)]
    /\ UNCHANGED <<shared, inst, budget>>

\* One iteration of the poll loop up to `await self.mc_status()`, or the loop
\* running out.  `loops` is the number of iterations of the loop.
StartPoll(t, loops) ==
    /\ task[t].pc = "start_poll"
    /\ IF task[t].i < loops
         THEN task' = [task EXCEPT ![t] =
                [@ EXCEPT !.pc = "start_probe", !.i = @ + 1, !.ip = current,
                          !.mc_queries = @ + 1]]
         ELSE task' = [task EXCEPT ![t] =
                Finish(say(task[t], "StartedUnreachable", current))]
    /\ UNCHANGED <<shared, inst, budget>>

\* mc_status returns inside the loop: sleep and poll again, or build the
\* status embed of the success message (status_embed up to its first await).
StartProbed(t) ==
    /\ task[t].pc = "start_probe"
    /\ \E m \in mc_status(task[t].ip) :
        LET f == [task[t] EXCEPT !.is_mc_up = m.up, !.online_players = m.online] IN
        IF ~m.up
          THEN /\ task' = [task EXCEPT ![t] = [f EXCEPT !.pc = "start_poll"]]
               /\ UNCHANGED <<shared, budget>>
          ELSE \E r \in ec2_state :
                /\ ec2_client' = ec2
                /\ last_ec2_state' = r.last
                /\ Spend(0, 0, r.fault)
                /\ IF r.state = "running"
                     THEN task' = [task EXCEPT ![t] =
                            [f EXCEPT !.pc = "start_status", !.text_name = current,
                                      !.ip = current, !.mc_queries = @ + 1]]
                     ELSE task' = [task EXCEPT ![t] =
                            Finish(sayEmbed(f, "Started", current, OfflineEmbed(r.state), 0))]
                /\ UNCHANGED <<current, consecutive_empty, last_command_chan>>
    /\ UNCHANGED inst

\* status_embed's own mc_status returns; the success message is sent.
StartStatus(t) ==
    /\ task[t].pc = "start_status"
    /\ \E m \in mc_status(task[t].ip) :
        LET f == [task[t] EXCEPT !.is_mc_up = m.up, !.online_players = m.online] IN
        task' = [task EXCEPT ![t] = Finish(RunningEmbed(f, "Started", f.text_name, m))]
    /\ UNCHANGED <<shared, inst, budget>>

\* ---- cmd_stop -----------------------------------------------------------------
\* cmd_stop refusing only a stopped instance.
StopPrecondition_OnlyStopped(state) ==
    IF state \in {"stopped"} THEN "NotRunning" ELSE "proceed"

\* The state check of cmd_stop.
StopPrecondition(state) == IF state \notin {"running"} THEN "NotRunning" ELSE "proceed"

\* The refusal with its comparison off by one.
PlayersOnline_OffByOne(auto, is_mc_up, online_players) ==
    ~auto /\ is_mc_up /\ online_players > 1

\* The "players online" refusal of cmd_stop.
PlayersOnline(auto, is_mc_up, online_players) == ~auto /\ is_mc_up /\ online_players > 0

\* cmd_stop up to its first await, entered with frame f (channel and auto
\* set) by on_message or by monitor_players.
StopBegin(t, f, cmds) ==
    LET effective_channel == IF f.channel # None THEN f.channel ELSE last_command_chan
        g == [f EXCEPT !.effective_channel = effective_channel]
    IN  IF effective_channel = None
          THEN /\ task' = [task EXCEPT ![t] = Finish(g)]
               /\ Spend(cmds, 0, 0)
               /\ UNCHANGED <<ec2_client, last_ec2_state>>
          ELSE \E r \in ec2_state :
                /\ ec2_client' = ec2
                /\ last_ec2_state' = r.last
                /\ Spend(cmds, 0, r.fault)
                /\ IF StopPrecondition(r.state) = "NotRunning"
                     THEN task' = [task EXCEPT ![t] =
                            Finish(say([g EXCEPT !.state = r.state], "NotRunning", current))]
                     ELSE task' = [task EXCEPT ![t] =
                            [g EXCEPT !.state = r.state, !.pc = "stop_probe",
                                      !.ip = current, !.mc_queries = @ + 1]]

\* on_message dispatching "stop" (never automatic).
CmdStop(t, ch, limit) ==
    /\ Accepts(t, limit)
    /\ last_command_chan' = on_message(ch)
    /\ StopBegin(t, [NoTask EXCEPT !.op = "stop", !.channel = ch, !.auto = FALSE], 1)
    /\ UNCHANGED <<current, consecutive_empty, inst>>

\* mc_status returns in cmd_stop: refuse, or announce the stop.
StopProbed(t) ==
    /\ task[t].pc = "stop_probe"
    /\ \E m \in mc_status(task[t].ip) :
        LET f == [task[t] EXCEPT !.is_mc_up = m.up, !.online_players = m.online] IN
        IF PlayersOnline(f.auto, m.up, m.online)
          THEN task' = [task EXCEPT ![t] =
                 Finish(sayEmbed(f, "PlayersOnline", current, "", m.online))]
          ELSE task' = [task EXCEPT ![t] =
                 [say(f, IF f.auto THEN "AutoStopping" ELSE "Stopping", current)
                    EXCEPT !.pc = "stop_call"]]
    /\ UNCHANGED <<shared, inst, budget>>

\* stop_instances and the hand-over of the instance_stopped waiter to a thread.
StopCall(t) ==
    /\ task[t].pc = "stop_call"
    /\ LET f == [task[t] EXCEPT !.stops = Append(@, current)]
           res == StopInstances(ec2, current)
       IN  /\ ec2_client' = ec2
           /\ \/ /\ res # "raise"
                 /\ inst' = [inst EXCEPT ![current] = res]
                 /\ task' = [task EXCEPT ![t] =
                        [f EXCEPT !.pc = "stop_wait", !.waiter = current]]
                 /\ UNCHANGED budget
              \/ /\ res = "raise" \/ budget.faults < MaxFaults
                 /\ task' = [task EXCEPT ![t] = Finish(say(f, "StopFailed", current))]
                 /\ Spend(0, 0, IF res = "raise" THEN 0 ELSE 1)
                 /\ UNCHANGED inst
    /\ UNCHANGED <<current, consecutive_empty, last_command_chan, last_ec2_state>>

\* cmd_stop with the reset of the counter moved to where both outcomes of
\* the wait pass.
StopWaitDone_ResetsAlways(t) ==
    /\ task[t].pc = "stop_wait"
    /\ IF inst[task[t].waiter] = "stopped"
         THEN /\ task' = [task EXCEPT ![t] =
                    [say(task[t], "Stopped", current) EXCEPT !.pc = "stop_reset"]]
              /\ UNCHANGED consecutive_empty
         ELSE /\ task' = [task EXCEPT ![t] = Finish(say(task[t], "StopFailed", current))]
              /\ consecutive_empty' = 0
    /\ UNCHANGED <<current, ec2_client, last_command_chan, last_ec2_state, inst, budget>>

\* The waiter returns (the instance is stopped) or raises; on success the
\* "stopped" message is sent, and the counter is reset after that await.
StopWaitDone(t) ==
    /\ task[t].pc = "stop_wait"
    /\ IF inst[task[t].waiter] = "stopped"
         THEN task' = [task EXCEPT ![t] =
                [say(task[t], "Stopped", current) EXCEPT !.pc = "stop_reset"]]
         ELSE task' = [task EXCEPT ![t] = Finish(say(task[t], "StopFailed", current))]
    /\ UNCHANGED <<shared, inst, budget>>

StopReset(t) ==
    /\ task[t].pc = "stop_reset"
    /\ consecutive_empty' = 0
    /\ task' = [task EXCEPT ![t] = Finish(@)]
    /\ UNCHANGED <<current, ec2_client, last_command_chan, last_ec2_state, inst, budget>>

\* ---- cmd_mount ----------------------------------------------------------------
\* The list of names with the active profile left out.
valid_OmitsActive == SelectSeq(servers, LAMBDA n : n # current)

\* The names listed by the "unknown server" message of cmd_mount.
valid == servers

\* cmd_mount without its "already active" return.
MountPrecondition_NoActiveCheck(state, server_name) ==
    IF state = "running" THEN "CannotMountWhileRunning"
    ELSE IF server_name \notin ServerNames THEN "UnknownProfile"
    ELSE "proceed"

\* cmd_mount checking the name before the instance state.
MountPrecondition_NameFirst(state, server_name) ==
    IF server_name \notin ServerNames THEN "UnknownProfile"
    ELSE IF server_name = current THEN "AlreadyActive"
    ELSE IF state = "running" THEN "CannotMountWhileRunning"
    ELSE "proceed"

\* The three early returns of cmd_mount, in the code's order.
MountPrecondition(state, server_name) ==
    IF state = "running" THEN "CannotMountWhileRunning"
    ELSE IF server_name \notin ServerNames THEN "UnknownProfile"
    ELSE IF server_name = current THEN "AlreadyActive"
    ELSE "proceed"

\* cmd_mount switching the profile without dropping the client.
CmdMount_KeepsClient(t, ch, server_name, limit) ==
    /\ Accepts(t, limit)
    /\ last_command_chan' = on_message(ch)
    /\ \E r \in ec2_state :
        LET f == [NoTask EXCEPT !.op = "mount", !.channel = ch, !.state = r.state,
                                !.server_name = server_name]
            pre == MountPrecondition(r.state, server_name)
        IN  /\ Spend(1, 0, r.fault)
            /\ IF pre = "proceed"
                 THEN /\ current' = server_name
                      /\ ec2_client' = ec2
                      /\ last_ec2_state' = ""
                      /\ consecutive_empty' = 0
                      /\ task' = [task EXCEPT ![t] =
                            [say(f, "Switched", server_name) EXCEPT !.pc = "mount_status"]]
                 ELSE /\ ec2_client' = ec2
                      /\ last_ec2_state' = r.last
                      /\ task' = [task EXCEPT ![t] = Finish(
                            IF pre = "UnknownProfile"
                              THEN [f EXCEPT !.notes = Append(@,
                                      [Note(pre, server_name, "", 0) EXCEPT !.valid = valid])]
                              ELSE say(f, pre, IF pre = "AlreadyActive"
                                                 THEN server_name ELSE current))]
                      /\ UNCHANGED <<current, consecutive_empty>>
    /\ UNCHANGED inst

\* on_message dispatching "mount <server_name>", and cmd_mount up to its
\* first await.
CmdMount(t, ch, server_name, limit) ==
    /\ Accepts(t, limit)
    /\ last_command_chan' = on_message(ch)
    /\ \E r \in ec2_state :
        LET f == [NoTask EXCEPT !.op = "mount", !.channel = ch, !.state = r.state,
                                !.server_name = server_name]
            pre == MountPrecondition(r.state, server_name)
        IN  /\ Spend(1, 0, r.fault)
            /\ IF pre = "proceed"
                 THEN /\ current' = server_name
                      /\ ec2_client' = None
                      /\ last_ec2_state' = ""
                      /\ consecutive_empty' = 0
                      /\ task' = [task EXCEPT ![t] =
                            [say(f, "Switched", server_name) EXCEPT !.pc = "mount_status"]]
                 ELSE /\ ec2_client' = ec2
                      /\ last_ec2_state' = r.last
                      /\ task' = [task EXCEPT ![t] = Finish(
                            IF pre = "UnknownProfile"
                              THEN [f EXCEPT !.notes = Append(@,
                                      [Note(pre, server_name, "", 0) EXCEPT !.valid = valid])]
                              ELSE say(f, pre, IF pre = "AlreadyActive"
                                                 THEN server_name ELSE current))]
                      /\ UNCHANGED <<current, consecutive_empty>>
    /\ UNCHANGED inst

\* cmd_status at the end of cmd_mount: status_embed up to its first await.
MountStatus(t) ==
    /\ task[t].pc = "mount_status"
    /\ \E r \in ec2_state :
        /\ ec2_client' = ec2
        /\ last_ec2_state' = r.last
        /\ Spend(0, 0, r.fault)
        /\ IF r.state = "running"
             THEN task' = [task EXCEPT ![t] =
                    [@ EXCEPT !.pc = "mount_probe", !.ip = current, !.mc_queries = @ + 1]]
             ELSE task' = [task EXCEPT ![t] =
                    Finish(sayEmbed(task[t], "Status", current, OfflineEmbed(r.state), 0))]
    /\ UNCHANGED <<current, consecutive_empty, last_command_chan, inst>>

MountProbed(t) ==
    /\ task[t].pc = "mount_probe"
    /\ \E m \in mc_status(task[t].ip) :
        task' = [task EXCEPT ![t] = Finish(RunningEmbed(task[t], "Status", current, m))]
    /\ UNCHANGED <<shared, inst, budget>>

\* ---- monitor_players -----------------------------------------------------------
\* The reset with its comparison off by one.
ResetEmpty_OffByOne(n) == IF n > 1 THEN 0 ELSE n

\* `if self._consecutive_empty > 0: self._consecutive_empty = 0`
ResetEmpty(n) == IF n > 0 THEN 0 ELSE n

\* The test for an empty server looking at the number of players only.
IsEmpty_IgnoresReachability(is_mc_up, online_players) == online_players = 0

\* The idle observation of one tick.
IsEmpty(is_mc_up, online_players) == is_mc_up /\ online_players = 0

\* One iteration of the loop, up to `await self.mc_status()`.
MonitorTickWithin(limit) ==
    /\ Free(Monitor) /\ budget.ticks < limit
    /\ \E r \in ec2_state :
        LET f == [NoTask EXCEPT !.op = "tick", !.tick_state = r.state,
                                !.streak0 = consecutive_empty,
                                !.unreachable_ticks =
                                    IF r.state = "running"
                                      THEN task[Monitor].unreachable_ticks ELSE 0,
                                !.cmds0 = IF \A u \in Cmds : Free(u)
                                            THEN budget.cmds ELSE -1]
        IN  /\ ec2_client' = ec2
            /\ last_ec2_state' = r.last
            /\ Spend(0, 1, r.fault)
            /\ IF r.state # "running"
                 THEN /\ consecutive_empty' = ResetEmpty(consecutive_empty)
                      /\ task' = [task EXCEPT ![Monitor] = Finish(f)]
                 ELSE /\ consecutive_empty' = consecutive_empty
                      /\ task' = [task EXCEPT ![Monitor] =
                            [f EXCEPT !.pc = "mon_probe", !.ip = current, !.mc_queries = 1]]
    /\ UNCHANGED <<current, last_command_chan, inst>>

MonitorTick == MonitorTickWithin(MaxTicks)

\* The tick calling cmd_stop only when the counter is exactly at the limit.
MonitorProbed_ExactLimit ==
    /\ task[Monitor].pc = "mon_probe"
    /\ \E m \in mc_status(task[Monitor].ip) :
        LET f == [task[Monitor] EXCEPT !.tick_up = m.up, !.tick_online = m.online,
                                       !.unreachable_ticks = IF m.up THEN 0 ELSE @ + 1] IN
        IF IsEmpty(m.up, m.online)
          THEN /\ consecutive_empty' = consecutive_empty + 1
               /\ IF consecutive_empty + 1 = CONSECUTIVE_EMPTY_LIMIT
                    THEN StopBegin(Monitor, [f EXCEPT !.channel = None, !.auto = TRUE], 0)
                    ELSE /\ task' = [task EXCEPT ![Monitor] = Finish(f)]
                         /\ UNCHANGED <<ec2_client, last_ec2_state, budget>>
          ELSE /\ consecutive_empty' = ResetEmpty(consecutive_empty)
               /\ task' = [task EXCEPT ![Monitor] = Finish(f)]
               /\ UNCHANGED <<ec2_client, last_ec2_state, budget>>
    /\ UNCHANGED <<current, last_command_chan, inst>>

\* mc_status returns in the tick: count, auto-stop (cmd_stop up to its first
\* await), or reset.
MonitorProbed ==
    /\ task[Monitor].pc = "mon_probe"
    /\ \E m \in mc_status(task[Monitor].ip) :
        LET f == [task[Monitor] EXCEPT !.tick_up = m.up, !.tick_online = m.online,
                                       !.unreachable_ticks = IF m.up THEN 0 ELSE @ + 1] IN
        IF IsEmpty(m.up, m.online)
          THEN /\ consecutive_empty' = consecutive_empty + 1
               /\ IF consecutive_empty + 1 >= CONSECUTIVE_EMPTY_LIMIT
                    THEN StopBegin(Monitor, [f EXCEPT !.channel = None, !.auto = TRUE], 0)
                    ELSE /\ task' = [task EXCEPT ![Monitor] = Finish(f)]
                         /\ UNCHANGED <<ec2_client, last_ec2_state, budget>>
          ELSE /\ consecutive_empty' = ResetEmpty(consecutive_empty)
               /\ task' = [task EXCEPT ![Monitor] = Finish(f)]
               /\ UNCHANGED <<ec2_client, last_ec2_state, budget>>
    /\ UNCHANGED <<current, last_command_chan, inst>>

\* ---- the environment ------------------------------------------------------
\* The provider finishes a transition it was asked for.
Converge(p) ==
    /\ inst[p] \in {"pending", "stopping"}
    /\ inst' = [inst EXCEPT ![p] = IF @ = "pending" THEN "running" ELSE "stopped"]
    /\ UNCHANGED <<shared, task, budget>>

\* ---- specifications -----------------------------------------------------------
\* The monitor loop running beside the commands of one on_message at a time.
Next ==
    \/ \E ch \in Channels : CmdStart("c1", ch, MaxCmds)
    \/ \E t \in Tasks : StartCall(t)
    \/ \E t \in Tasks : StartWaitDone(t)
    \/ \E t \in Tasks : StartPoll(t, MaxPolls)
    \/ \E t \in Tasks : StartProbed(t)
    \/ \E t \in Tasks : StartStatus(t)
    \/ \E ch \in Channels : CmdStop("c1", ch, MaxCmds)
    \/ \E t \in Tasks : StopProbed(t)
    \/ \E t \in Tasks : StopCall(t)
    \/ \E t \in Tasks : StopWaitDone(t)
    \/ \E t \in Tasks : StopReset(t)
    \/ \E ch \in Channels, n \in RequestedNames : CmdMount("c1", ch, n, MaxCmds)
    \/ \E t \in Tasks : MountStatus(t)
    \/ \E t \in Tasks : MountProbed(t)
    \/ MonitorTick
    \/ MonitorProbed
    \/ \E p \in ServerNames : Converge(p)

Spec == Init /\ [][Next]_vars

\* Two on_message handlers in flight at once (discord.py runs each event
\* handler as its own task), without the monitor loop.
NextCommands ==
    \/ \E t \in Cmds, ch \in Channels : CmdStart(t, ch, MaxOverlapping)
    \/ \E t \in Cmds : StartCall(t)
    \/ \E t \in Cmds : StartWaitDone(t)
    \/ \E t \in Cmds : StartPoll(t, MaxPolls)
    \/ \E t \in Cmds : StartProbed(t)
    \/ \E t \in Cmds : StartStatus(t)
    \/ \E t \in Cmds, ch \in Channels : CmdStop(t, ch, MaxOverlapping)
    \/ \E t \in Cmds : StopProbed(t)
    \/ \E t \in Cmds : StopCall(t)
    \/ \E t \in Cmds : StopWaitDone(t)
    \/ \E t \in Cmds : StopReset(t)
    \/ \E t \in Cmds, ch \in Channels, n \in RequestedNames : CmdMount(t, ch, n, MaxOverlapping)
    \/ \E t \in Cmds : MountStatus(t)
    \/ \E t \in Cmds : MountProbed(t)
    \/ \E p \in ServerNames : Converge(p)

SpecCommands == Init /\ [][NextCommands]_vars

\* The monitor loop running beside mount commands that follow one another.
NextMounts ==
    \/ \E ch \in Channels, n \in RequestedNames : CmdMount("c1", ch, n, MaxMounts)
    \/ MountStatus("c1")
    \/ MountProbed("c1")
    \/ MonitorTick
    \/ MonitorProbed
    \/ StopProbed(Monitor)
    \/ StopCall(Monitor)
    \/ StopWaitDone(Monitor)
    \/ StopReset(Monitor)
    \/ \E p \in ServerNames : Converge(p)

SpecMounts == Init /\ [][NextMounts]_vars

\* Start commands one after another, the poll loop at its full length.
NextStart ==
    \/ \E ch \in Channels : CmdStart("c1", ch, MaxCmds)
    \/ StartCall("c1")
    \/ StartWaitDone("c1")
    \/ StartPoll("c1", max_wait_loops)
    \/ StartProbed("c1")
    \/ StartStatus("c1")
    \/ \E p \in ServerNames : Converge(p)

SpecStart == Init /\ [][NextStart]_vars

\* The monitor loop over more ticks than the limit, beside one stop command
\* at a time.
NextIdle ==
    \/ \E ch \in Channels : CmdStop("c1", ch, MaxCmds)
    \/ \E t \in Tasks : StopProbed(t)
    \/ \E t \in Tasks : StopCall(t)
    \/ \E t \in Tasks : StopWaitDone(t)
    \/ \E t \in Tasks : StopReset(t)
    \/ MonitorTickWithin(MaxIdleTicks)
    \/ MonitorProbed
    \/ \E p \in ServerNames : Converge(p)

SpecIdle == Init /\ [][NextIdle]_vars

\* ---- properties -----------------------------------------------------------------
InFlight(f) == f.pc \notin {"idle", "done"}
LastKind(f) == IF f.notes = <<>> THEN "" ELSE f.notes[Len(f.notes)].kind

\* The step is on_message accepting command `op` in slot t.
Invokes(t, op) ==
    Accepts(t, budget.cmds + 1) /\ budget'.cmds = budget.cmds + 1 /\ task'[t].op = op

\* C1: a manual stop whose own liveness probe reports the server reachable
\* with players online issues no provider stop call and ends with the single
\* notification "players online"; the step that refuses leaves the idle
\* counter, the active profile and the instances as they were.
C1_Refused(f) == f.op = "stop" /\ ~f.auto /\ f.is_mc_up /\ f.online_players > 0

C1_Inv ==
    \A t \in Tasks : C1_Refused(task[t]) =>
        /\ task[t].pc = "done"
        /\ task[t].stops = <<>>
        /\ Len(task[t].notes) = 1
        /\ LastKind(task[t]) = "PlayersOnline"

C1_Step ==
    \A t \in Tasks : (task[t].pc = "stop_probe" /\ C1_Refused(task'[t])) =>
        /\ consecutive_empty' = consecutive_empty
        /\ current' = current
        /\ inst' = inst

C1_NonForcedStopRefused == []C1_Inv /\ [][C1_Step]_vars

C1_Witness ==
    /\ C1_Refused(task["c1"]) /\ task["c1"].pc = "done"
    /\ consecutive_empty > 0

\* C2: a monitor tick that observes the instance running and the server
\* reachable and empty, that began with the idle counter below the limit and
\* had no command beside it, leaves the counter one higher and issues no stop
\* call while the limit is not reached, and on reaching the limit issues
\* exactly one provider stop call, the counter being 0 once that stop has
\* succeeded.
C2_CleanIdleTick(f) ==
    /\ f.op = "tick" /\ f.pc = "done"
    /\ budget.cmds = f.cmds0
    /\ f.tick_state = "running" /\ IsEmpty(f.tick_up, f.tick_online)
    /\ f.streak0 < CONSECUTIVE_EMPTY_LIMIT
    /\ f.state \in {"", "running"}

C2_Stopped(f) == \E k \in 1..Len(f.notes) : f.notes[k].kind = "Stopped"

C2_IdleTicksStopOnce ==
    LET f == task[Monitor] IN
    C2_CleanIdleTick(f) =>
        IF f.streak0 + 1 < CONSECUTIVE_EMPTY_LIMIT
          THEN consecutive_empty = f.streak0 + 1 /\ f.stops = <<>>
          ELSE Len(f.stops) = 1 /\ (C2_Stopped(f) => consecutive_empty = 0)

\* C3: a monitor tick that observes the instance not running ends at once
\* with the idle counter 0, without a liveness query and without a stop call;
\* a tick that observes it running with players online or with the server
\* unreachable ends with the idle counter 0 and without a stop call.
C3_Step ==
    LET f == task[Monitor]
        g == task'[Monitor]
    IN  /\ (Free(Monitor) /\ budget'.ticks = budget.ticks + 1 /\ g.tick_state # "running") =>
            /\ g.pc = "done" /\ consecutive_empty' = 0
            /\ g.mc_queries = 0 /\ g.stops = <<>>
        /\ (f.pc = "mon_probe" /\ g.pc # "mon_probe" /\ ~IsEmpty(g.tick_up, g.tick_online)) =>
            /\ g.pc = "done" /\ consecutive_empty' = 0
            /\ g.stops = <<>>

C3_TickResets == [][C3_Step]_vars

C3_Witness ==
    LET f == task[Monitor] IN
    /\ f.op = "tick" /\ f.pc = "done" /\ f.tick_state = "running"
    /\ f.tick_up /\ f.tick_online > 0
    /\ f.streak0 > 0 /\ consecutive_empty = 0

\* C4: two start commands in flight at once, each having observed the
\* instance stopped, never both issue a provider start call.
C4_Passed(f) == f.op = "start" /\ f.state = "stopped" /\ InFlight(f)

C4_OneStartAtATime ==
    \A t1, t2 \in Cmds : t1 # t2 =>
        ~(/\ C4_Passed(task[t1]) /\ task[t1].starts # <<>>
          /\ C4_Passed(task[t2]) /\ task[t2].starts # <<>>)

\* C5: the monitor's automatic stop and a manual stop in flight at once never
\* both issue a provider stop call for the same instance.
C5_Issued(f, p) == InFlight(f) /\ f.stops = <<p>>

C5_OneStopDecision ==
    \A p \in ServerNames :
        ~(/\ task[Monitor].auto /\ C5_Issued(task[Monitor], p)
          /\ task["c1"].op = "stop" /\ C5_Issued(task["c1"], p))

\* C6 as stated: a mount that observes the instance running, whatever name it
\* is given, ends with "cannot mount while running" and leaves the active
\* profile, the provider client and the idle counter unchanged.
C6_Refuses(t) ==
    /\ task'[t].pc = "done" /\ LastKind(task'[t]) = "CannotMountWhileRunning"
    /\ current' = current
    /\ consecutive_empty' = consecutive_empty

C6_MountWhileRunningChangesNothing ==
    [][\A t \in Cmds : (Invokes(t, "mount") /\ task'[t].state = "running") =>
            C6_Refuses(t) /\ ec2_client' = ec2_client]_vars

\* C6 amended: a mount that observes the instance running, whatever name it
\* is given, ends with "cannot mount while running" and leaves the active
\* profile and the idle counter unchanged; the provider client is unchanged
\* if it exists, and otherwise is created for the active profile's region.
C6_MountWhileRunningRefused ==
    [][\A t \in Cmds : (Invokes(t, "mount") /\ task'[t].state = "running") =>
            /\ C6_Refuses(t)
            /\ ec2_client' = IF ec2_client = None THEN region(current) ELSE ec2_client]_vars

C6_Witness ==
    LET f == task["c1"] IN
    /\ f.op = "mount" /\ f.state = "running" /\ f.pc = "done"
    /\ f.server_name \in ServerNames /\ f.server_name # current
    /\ consecutive_empty > 0

\* C7: while a start that passed its precondition is in flight the active
\* profile is the one it began with, and every provider call and notification
\* of that start names that profile.
C7_StartKeepsProfile ==
    \A t \in Cmds :
        LET f == task[t] IN
        (f.op = "start" /\ f.began # None) =>
            /\ InFlight(f) => current = f.began
            /\ \A k \in 1..Len(f.starts) : f.starts[k] = f.began
            /\ \A k \in 1..Len(f.notes) : f.notes[k].name = f.began

\* C8: a start issues a provider start call only when it observed the
\* instance stopped; observing it running it reports "already running", and
\* observing it pending or stopping it reports "busy".
C8_StartOnlyWhenStopped ==
    \A t \in Cmds :
        LET f == task[t] IN
        f.op = "start" =>
            /\ f.starts # <<>> => f.state = "stopped"
            /\ f.state = "running" => LastKind(f) = "AlreadyRunning"
            /\ f.state \in {"pending", "stopping", "shutting-down"} => LastKind(f) = "Busy"

\* C9: a start that observes the instance running issues no provider start
\* or stop call and sends exactly one notification, "already running"; the
\* step leaves the active profile, the idle counter and the instances as they
\* were.
C9_AlreadyRunning(f) == f.op = "start" /\ f.state = "running"

C9_Inv ==
    \A t \in Cmds : C9_AlreadyRunning(task[t]) =>
        /\ task[t].pc = "done"
        /\ task[t].starts = <<>> /\ task[t].stops = <<>>
        /\ Len(task[t].notes) = 1 /\ LastKind(task[t]) = "AlreadyRunning"

C9_Step ==
    \A t \in Cmds : (Invokes(t, "start") /\ C9_AlreadyRunning(task'[t])) =>
        /\ current' = current
        /\ consecutive_empty' = consecutive_empty
        /\ inst' = inst

C9_StartOnRunningIsNoOp == []C9_Inv /\ [][C9_Step]_vars

C9_Witness ==
    /\ C9_AlreadyRunning(task["c1"]) /\ task["c1"].pc = "done"
    /\ consecutive_empty > 0

\* C10: a stop, manual or automatic, issues a provider stop call only when it
\* observed the instance running; observing any other state it ends with the
\* notification "not running", without a stop call and without a liveness
\* query of its own, and does not touch the idle counter.
C10_InStop(f) == f.op = "stop" \/ (f.op = "tick" /\ f.auto)
C10_NotRunning(f) == C10_InStop(f) /\ f.state \notin {"", "running"}

C10_Inv ==
    \A t \in Tasks :
        LET f == task[t] IN
        /\ (C10_InStop(f) /\ f.stops # <<>>) => f.state = "running"
        /\ C10_NotRunning(f) =>
            /\ f.pc = "done" /\ f.stops = <<>>
            /\ LastKind(f) = "NotRunning" /\ Len(f.notes) = 1
            /\ f.mc_queries = (IF f.op = "tick" THEN 1 ELSE 0)

C10_Step ==
    /\ \A t \in Cmds : (Invokes(t, "stop") /\ C10_NotRunning(task'[t])) =>
            consecutive_empty' = consecutive_empty
    /\ (task[Monitor].pc = "mon_probe" /\ C10_NotRunning(task'[Monitor])) =>
            consecutive_empty' = consecutive_empty + 1

C10_StopOnlyWhenRunning == []C10_Inv /\ [][C10_Step]_vars

C10_Witness ==
    /\ C10_NotRunning(task[Monitor]) /\ task[Monitor].pc = "done"
    /\ consecutive_empty >= CONSECUTIVE_EMPTY_LIMIT

\* C11: no provider stop call, manual or automatic, is issued by a stop whose
\* own liveness probe, the last one made before the call, reported the server
\* reachable with players online.
C11_InUse(f) == f.is_mc_up /\ f.online_players > 0

C11_NeverStoppedInUse ==
    \A t \in Tasks :
        (C10_InStop(task[t]) /\ task[t].stops # <<>>) => ~C11_InUse(task[t])

\* C12: once a monitor tick that observed the instance running and the
\* server reachable and empty has brought the idle counter to the limit, that
\* tick has issued a provider stop call, whether or not a channel for the
\* notifications is known.
C12_IdleInstanceIsStopped ==
    LET f == task[Monitor] IN
    (/\ f.op = "tick" /\ f.pc = "done"
     /\ f.tick_state = "running" /\ IsEmpty(f.tick_up, f.tick_online)
     /\ f.state \in {"", "running"}
     /\ consecutive_empty >= CONSECUTIVE_EMPTY_LIMIT) => f.stops # <<>>

\* C13: every start and stop invocation terminates.  Whatever the provider
\* does, an invocation in flight always has its next step available, every
\* step brings it closer to its end (at most 2 * loops + 4 steps, the poll
\* loop included), and a wait that ends without the instance having reached
\* the awaited state ends the invocation with its failure notification.
C13_Pcs ==
    {"start_call", "start_wait", "start_poll", "start_probe", "start_status",
     "stop_probe", "stop_call", "stop_wait", "stop_reset"}

C13_Continue(t) ==
    \/ StartCall(t) \/ StartWaitDone(t) \/ StartPoll(t, MaxPolls)
    \/ StartProbed(t) \/ StartStatus(t)
    \/ StopProbed(t) \/ StopCall(t) \/ StopWaitDone(t) \/ StopReset(t)

C13_Rank(f) ==
    CASE f.pc = "start_call"   -> 2 * MaxPolls + 4
      [] f.pc = "start_wait"   -> 2 * MaxPolls + 3
      [] f.pc = "start_poll"   -> 2 * (MaxPolls - f.i) + 2
      [] f.pc = "start_probe"  -> 2 * (MaxPolls - f.i) + 3
      [] f.pc = "start_status" -> 1
      [] f.pc = "stop_probe"   -> 4
      [] f.pc = "stop_call"    -> 3
      [] f.pc = "stop_wait"    -> 2
      [] f.pc = "stop_reset"   -> 1
      [] OTHER                 -> 0

C13_Inv ==
    \A t \in Tasks :
        task[t].pc \in C13_Pcs => (C13_Rank(task[t]) > 0 /\ ENABLED C13_Continue(t))

C13_Step ==
    \A t \in Tasks :
        (task[t].pc \in C13_Pcs /\ task'[t] # task[t]) =>
            /\ C13_Rank(task'[t]) < C13_Rank(task[t])
            /\ (task[t].pc = "start_wait" /\ inst[task[t].waiter] # "running") =>
                    (task'[t].pc = "done" /\ LastKind(task'[t]) = "StartFailed")
            /\ (task[t].pc = "stop_wait" /\ inst[task[t].waiter] # "stopped") =>
                    (task'[t].pc = "done" /\ LastKind(task'[t]) = "StopFailed")

C14_Pcs == {"stop_call", "stop_wait", "stop_reset"}

C14_Inv ==
    \A t \in Tasks :
        LET f == task[t] IN
        (C10_InStop(f) /\ f.stops # <<>> /\ f.pc = "done")
            => LastKind(f) \in {"Stopped", "StopFailed"}

C14_Step ==
    \A t \in Tasks :
        LET f == task[t]
            g == task'[t]
        IN  (f.pc \in C14_Pcs /\ g # f) =>
              IF f.pc = "stop_reset"
                THEN /\ LastKind(f) = "Stopped"
                     /\ g.pc = "done" /\ g.notes = f.notes
                     /\ consecutive_empty' = 0
                ELSE /\ consecutive_empty' = consecutive_empty
                     /\ last_ec2_state' = last_ec2_state
                     /\ g.pc = "stop_reset" =>
                            (inst[f.waiter] = "stopped" /\ LastKind(g) = "Stopped")
                     /\ g.pc = "done" => LastKind(g) = "StopFailed"
                     /\ g.pc \in {"stop_wait", "stop_reset", "done"}

C14_StopOutcome == []C14_Inv /\ [][C14_Step]_vars

\* An automatic stop whose wait failed: failure reported, counter kept.
C14_Witness ==
    LET f == task[Monitor] IN
    /\ f.op = "tick" /\ f.pc = "done" /\ f.waiter # None
    /\ LastKind(f) = "StopFailed"
    /\ consecutive_empty >= CONSECUTIVE_EMPTY_LIMIT

\* C15: the active profile never changes while the instance of the profile
\* that was active is in provider state running, whatever the state query
\* reported.
C15_NoSwitchOfLiveInstance ==
    [][current' # current => inst[current] # "running"]_vars

\* C16 as claimed: a mount of a name that is not configured, observing a state
\* other than running, ends with "unknown server" listing every configured
\* name and leaves the active profile, the provider client and the idle
\* counter unchanged.
C16_Unknown(t) ==
    /\ Invokes(t, "mount")
    /\ task'[t].state # "running"
    /\ task'[t].server_name \notin ServerNames

C16_Refuses(t) ==
    LET g == task'[t] IN
    /\ g.pc = "done" /\ Len(g.notes) = 1
    /\ g.notes[1].kind = "UnknownProfile"
    /\ g.notes[1].valid = servers
    /\ current' = current
    /\ consecutive_empty' = consecutive_empty

C16_UnknownMountChangesNothing ==
    [][\A t \in Cmds : C16_Unknown(t) => (C16_Refuses(t) /\ ec2_client' = ec2_client)]_vars

\* C16 amended: such a mount ends with "unknown server" listing every
\* configured name and leaves the active profile and the idle counter
\* unchanged; the provider client is unchanged if it exists, and otherwise is
\* created for the active profile's region.
C16_UnknownMountRefused ==
    [][\A t \in Cmds : C16_Unknown(t) =>
            /\ C16_Refuses(t)
            /\ ec2_client' = IF ec2_client = None THEN region(current) ELSE ec2_client]_vars

C16_Witness ==
    LET f == task["c1"] IN
    /\ f.op = "mount" /\ f.pc = "done" /\ f.state # "running"
    /\ f.server_name \notin ServerNames
    /\ consecutive_empty > 0

\* C17: a mount of a configured profile A that observed the instance not
\* running and has returned, followed by a second mount of A that also
\* observes it not running, with no other command in between: the second
\* mount is an "already active" no-op that leaves the active profile, the
\* provider client and the idle counter as it found them.
C17_SecondMount(t) ==
    /\ task[t].op = "mount" /\ task[t].pc = "done"
    /\ task[t].server_name \in ServerNames
    /\ task[t].state # "running"
    /\ Invokes(t, "mount")
    /\ task'[t].server_name = task[t].server_name
    /\ task'[t].state # "running"

C17_MountTwiceIsNoOp ==
    [][C17_SecondMount("c1") =>
            /\ task'["c1"].pc = "done"
            /\ Len(task'["c1"].notes) = 1
            /\ LastKind(task'["c1"]) = "AlreadyActive"
            /\ current = task["c1"].server_name
            /\ current' = current
            /\ ec2_client # None /\ ec2_client' = ec2_client
            /\ consecutive_empty' = consecutive_empty]_vars

\* The second of two mounts of the second profile, the first of which
\* switched to it, with idle ticks counted in between.
C17_Witness ==
    LET f == task["c1"] IN
    /\ budget.cmds = 2
    /\ f.op = "mount" /\ f.pc = "done" /\ LastKind(f) = "AlreadyActive"
    /\ f.server_name = servers[2] /\ current = servers[2]
    /\ consecutive_empty > 0

\* C18 as claimed: a start that observed "stopped" and sent its "started"
\* message has sent "starting", "instance up, waiting" and "started", in that
\* order and nothing else, the last one showing the server up with its
\* player count.
C18_Kinds(f) == [k \in 1..Len(f.notes) |-> f.notes[k].kind]

C18_Started(f) == f.op = "start" /\ f.state = "stopped" /\ LastKind(f) = "Started"

C18_StartedCarriesCount ==
    \A t \in Tasks :
        LET f == task[t] IN
        C18_Started(f) =>
            /\ f.pc = "done"
            /\ C18_Kinds(f) = <<"Starting", "InstanceUp", "Started">>
            /\ f.notes[3].what = "up"

\* C18 amended: a start that observed "stopped" and whose wait returned ends,
\* once a poll finds the server reachable, with "starting", "instance up,
\* waiting" and "started", in that order and nothing after; the "started"
\* message comes with the status of a new query: the player count if that
\* query finds the instance running and the server reachable, "not reachable
\* yet" if the server does not answer it, or the instance state it read.
\* Without a reachable poll the third and last message is the partial one.
C18_StartNotifiesInOrder ==
    \A t \in Tasks :
        LET f == task[t] IN
        /\ C18_Started(f) =>
            /\ f.pc = "done"
            /\ C18_Kinds(f) = <<"Starting", "InstanceUp", "Started">>
            /\ f.i >= 1
            /\ IF f.mc_queries = f.i + 1
                 THEN IF f.is_mc_up
                        THEN f.notes[3].what = "up" /\ f.notes[3].n = f.online_players
                        ELSE f.notes[3].what = "unreachable"
                 ELSE /\ f.mc_queries = f.i
                      /\ f.notes[3].what \in {"starting", "stopping", "offline", "error", "unknown"}
        /\ (f.op = "start" /\ f.state = "stopped" /\ f.pc = "done"
                /\ Len(f.notes) >= 2 /\ f.notes[2].kind = "InstanceUp") =>
            /\ Len(f.notes) = 3
            /\ \/ LastKind(f) = "Started"
               \/ LastKind(f) = "StartedUnreachable" /\ f.i = MaxPolls /\ ~f.is_mc_up

C18_Witness ==
    LET f == task["c1"] IN
    /\ C18_Started(f) /\ f.pc = "done"
    /\ f.notes[3].what = "up" /\ f.notes[3].n = MaxPlayers

\* C19: every start, stop and mount command sends exactly one message that
\* states its outcome, on every path; the messages before it are progress
\* messages, and the only message after it is the status that cmd_mount
\* sends after "switched".  A command still in flight after its outcome
\* message is a mount sending that status or a stop resetting the counter.
C19_Terminal ==
    {"AlreadyRunning", "Busy", "Started", "StartedUnreachable", "StartFailed",
     "NotRunning", "PlayersOnline", "Stopped", "StopFailed",
     "CannotMountWhileRunning", "UnknownProfile", "AlreadyActive", "Switched"}

C19_Progress == {"Starting", "InstanceUp", "Stopping"}

C19_Outcomes(f) == {k \in 1..Len(f.notes) : f.notes[k].kind \in C19_Terminal}

C20_UnreachableTick(f) == f.op = "tick" /\ f.pc = "done" /\ f.unreachable_ticks >= 1

C20_ThirdUnreachableTickStops ==
    LET f == task[Monitor] IN
    C20_UnreachableTick(f) =>
        IF f.unreachable_ticks = CONSECUTIVE_EMPTY_LIMIT
          THEN Len(f.stops) = 1
          ELSE f.stops = <<>>

\* C20 amended: a monitor tick that observes the instance running and the
\* server unreachable, be it the first, the second, the third or a later one
\* in a row, does not call cmd_stop and leaves the idle counter at 0.
C20_UnreachableTicksNeverStop ==
    LET f == task[Monitor] IN
    C20_UnreachableTick(f) =>
        /\ ~f.auto /\ f.stops = <<>> /\ f.notes = <<>>
        /\ consecutive_empty = 0

\* The third such tick in a row, with a channel known and the instance
\* still running.
C20_Witness ==
    LET f == task[Monitor] IN
    /\ C20_UnreachableTick(f)
    /\ f.unreachable_ticks = CONSECUTIVE_EMPTY_LIMIT
    /\ last_command_chan # None
    /\ inst[current] = "running"

\* C21: once the wait has returned, a start queries the server at most
\* max_wait_loops (120) times in its loop.  It goes on polling only after an
\* unreachable answer, and sends "started" right after the first reachable
\* one.  When all 120 answers are unreachable it ends with "started, but
\* Minecraft did not respond".  A start that got that far never sends the
\* failure message and never calls stop_instances.
C21_Polling(f) ==
    f.op = "start" /\ Len(f.notes) >= 2 /\ f.notes[2].kind = "InstanceUp"

C21_PollBudget ==
    LET f == task["c1"] IN
    C21_Polling(f) =>
        /\ f.i \in 0..max_wait_loops
        /\ f.stops = <<>>
        /\ \A k \in 1..Len(f.notes) : f.notes[k].kind # "StartFailed"
        /\ (f.pc = "start_poll" /\ f.i >= 1) => ~f.is_mc_up
        /\ f.pc \in {"start_poll", "start_probe"} => (Len(f.notes) = 2 /\ f.mc_queries = f.i)
        /\ f.pc = "start_status" => (f.i >= 1 /\ Len(f.notes) = 2 /\ f.mc_queries = f.i + 1)
        /\ f.pc = "done" =>
            /\ Len(f.notes) = 3
            /\ \/ /\ LastKind(f) = "Started"
                  /\ f.i >= 1 /\ f.mc_queries \in {f.i, f.i + 1}
               \/ /\ LastKind(f) = "StartedUnreachable"
                  /\ f.i = max_wait_loops /\ f.mc_queries = max_wait_loops
                  /\ ~f.is_mc_up

\* All 120 polls unanswered: the partial outcome.
C21_Witness ==
    LET f == task["c1"] IN
    /\ C21_Polling(f) /\ f.pc = "done"
    /\ LastKind(f) = "StartedUnreachable"
    /\ f.i = max_wait_loops

\* C22: the active profile changes only in a step that also drops the
\* provider client, clears the cached instance state and sets the idle
\* counter to 0.  So in every state a client that exists is bound to the
\* region of the active profile; a client is only ever created when there is
\* none, and none survives a change of profile.
C22_Inv == ec2_client # None => ec2_client = region(current)

C22_Step ==
    /\ current' # current =>
        /\ ec2_client' = None
        /\ last_ec2_state' = ""
        /\ consecutive_empty' = 0
    /\ (ec2_client' # ec2_client /\ ec2_client' # None) =>
        (ec2_client = None /\ ec2_client' = region(current'))
    /\ ec2_client' = None => (ec2_client = None \/ current' # current)

C22_ClientFollowsProfile == []C22_Inv /\ [][C22_Step]_vars

\* Switched to the second profile and back, with a client made again for
\* the first profile's region.
C22_Witness ==
    LET f == task["c1"] IN
    /\ budget.cmds = 2
    /\ f.op = "mount" /\ f.pc = "done" /\ LastKind(f) = "Status"
    /\ f.server_name = servers[1] /\ current = servers[1]
    /\ ec2_client = region(servers[1])

\* C23 as claimed: the idle counter is always in 0..CONSECUTIVE_EMPTY_LIMIT.
C23_CounterWithinLimit == consecutive_empty \in 0..CONSECUTIVE_EMPTY_LIMIT

\* C23 amended: the idle counter is a natural number that only the monitor
\* raises, by one per tick, and every tick that brings it to the limit or
\* above calls cmd_stop.  It has no upper bound of its own: it is above the
\* limit only during and after a tick that began with the counter at the
\* limit or above, and a tick begins that way only when the automatic stop
\* of the tick before ended without the "stopped" message (no channel known,
\* instance not seen running by the stop, or the provider call or wait
\* failed).
C23_Inv ==
    LET f == task[Monitor] IN
    /\ consecutive_empty \in 0..budget.ticks
    /\ consecutive_empty > CONSECUTIVE_EMPTY_LIMIT =>
        /\ f.op = "tick" /\ f.streak0 >= CONSECUTIVE_EMPTY_LIMIT
        /\ f.pc = "mon_probe" \/ f.auto

C23_Step ==
    LET f == task[Monitor]
        g == task'[Monitor]
    IN  /\ consecutive_empty' > consecutive_empty =>
            /\ f.pc = "mon_probe"
            /\ consecutive_empty' = consecutive_empty + 1
            /\ consecutive_empty' >= CONSECUTIVE_EMPTY_LIMIT => g.auto
        /\ (f.pc # "mon_probe" /\ g.pc = "mon_probe"
                /\ consecutive_empty >= CONSECUTIVE_EMPTY_LIMIT) =>
            /\ f.auto /\ f.pc = "done"
            /\ LastKind(f) \in {"", "NotRunning", "StopFailed"}

C23_CounterGrowsUntilStopped == []C23_Inv /\ [][C23_Step]_vars

\* The counter above the limit with a channel known: the automatic stop was
\* attempted and failed.
C23_Witness ==
    /\ consecutive_empty > CONSECUTIVE_EMPTY_LIMIT
    /\ last_command_chan # None

====
